---------------------------- MODULE Spec2Model ----------------------------
(***************************************************************************)
(* Model of the watercolor painting application: the history reducer, the  *)
(* Clear/Undo/Redo buttons, the submission handler (form parsing,          *)
(* validation, deferred paint, push) and the outline capture handlers.     *)
(*                                                                         *)
(* Two revisions of the App component are in the sources: src/src/App.tsx  *)
(* (canvas kept in a ref, validation collects a list of messages) and      *)
(* src/src/utils/form-parser.ts (parseForm followed by the later App:      *)
(* canvas kept in state, validation returns the first message, filter      *)
(* fields added, painting moved to src/src/utils/painting.ts).  The         *)
(* variable rev says which revision a behaviour runs.                      *)
(*                                                                         *)
(* Pixel content is abstracted: the buffer's content is the sequence of    *)
(* paint passes composited on the white background since the buffer was    *)
(* last blank, each pass named by its serial number (every pass draws      *)
(* fresh random geometry, so two passes never count as the same pixels).   *)
(***************************************************************************)
EXTENDS Integers, Sequences, FiniteSets, TLC

VARIABLES
    rev,             \* "App" (src/src/App.tsx) or "FormParser" (src/src/utils/form-parser.ts)
    width,           \* requested width of the painting (the resizable frame)
    height,          \* requested height of the painting
    canvas,          \* the canvas element: [mounted, width, height, px, fill]
    history,         \* reducer state: Seq of ImageData [width, height, px, fill]
    index,           \* reducer state: the cursor
    path,            \* captured outline: Seq of points <<x, y>>
    canvasMouseDown, \* a capture drag is active
    pending,         \* a generation is pending
    job,             \* the scheduled paint: NoJob or the PaintingOptions
    form,            \* the raw content of the HTML form: field name -> raw string
    alerted,         \* the lines of the alert shown by the latest submission
    serial,          \* number of paint passes run so far
    threw,           \* the latest handler raised an exception
    step,            \* name of the latest handler that ran
    call,            \* arguments of the reducer run by the latest handler, or NoCall
    accepted,        \* number of submissions accepted so far
    pushes,          \* number of setHistory("push") dispatched by onSubmit so far
    gen,             \* input of the layer generator run on its own, or NoGen
    out              \* its latest result, or NoOut

vars == <<rev, width, height, canvas, history, index, path, canvasMouseDown, pending, job,
          form, alerted, serial, threw, step, call, accepted, pushes, gen, out>>

----------------------------------------------------------------------------
(* Bounds of the model *)

\* Paint passes in one behaviour (each accepted submission runs one).
MaxPaints == 2
\* Snapshots the reducer is driven to hold when dispatched directly.
MaxHist == 3
\* Points one capture drag may collect before release.
MaxPath == 2
\* Pointer positions are <<k * minDistance, 0>>, k in 0..MaxPos.
MaxPos == 2
\* Fields of the form that differ from their default value.
MaxEdits == 2
\* Subdivision passes of one layer (iterations), when the generator is run on its own.
MaxIter == 2
\* Subdivision passes of the base path (preIterations).
MaxPre == 1
\* Layers of one path list.
MaxLayers == 2
MaxRoot == 2
\* Points captured in one drag when the capture is run on its own.
MaxCapture == 3
\* Width and height of the mask, and its filter radius, when the index of
\* the cell read is computed on its own.
MaxGrid == 3
MaxRadius == 2

----------------------------------------------------------------------------
(* Program constants *)

Revs == {"App", "FormParser"}

\* const minDistance = 16 (App.tsx) / 4 (form-parser.ts)
minDistance == IF rev = "App" THEN 16 ELSE 4

\* useState(512) for width and height, both revisions.
InitialWidth == 512
InitialHeight == 512

\* The resize handle keeps the frame at least this large.
minWidth == 256
minHeight == 256

\* A canvas element without width/height attributes is 300 x 150.
CanvasDefaultWidth == 300
CanvasDefaultHeight == 150

----------------------------------------------------------------------------
(* The canvas and its raster operations *)

\* px is the sequence of passes composited on the canvas; fill is the
\* colour of the pixels under them: "white" after clearCanvas, "transparent"
\* on a canvas just created or resized, "mixed" when an image was put on a
\* canvas of another fill that it does not cover.
NoCanvas ==
    [mounted |-> FALSE, width |-> 0, height |-> 0, px |-> <<>>, fill |-> "transparent"]

\* No pass composited.
Blank == <<>>

\* clearCanvas: fill the whole canvas with opaque white.
clearCanvas(cv) == [cv EXCEPT !.px = Blank, !.fill = "white"]

\* canvas.width = w / canvas.height = h: the canvas is resized and reset.
resizeCanvas(cv, w, h) ==
    [cv EXCEPT !.width = w, !.height = h, !.px = Blank, !.fill = "transparent"]

\* context.getImageData(0, 0, canvas.width, canvas.height): a copy.
getImageData(cv) ==
    [width |-> cv.width, height |-> cv.height, px |-> cv.px, fill |-> cv.fill]

\* context.putImageData(img, 0, 0): the pixels of img replace those of its
\* rectangle at the origin; the pixels outside it stay.
putImageDataMutKeep(cv, img) == cv
putImageData(cv, img) ==
    [cv EXCEPT !.px = img.px,
               !.fill = IF \/ (img.width >= cv.width /\ img.height >= cv.height)
                           \/ (cv.px = Blank /\ cv.fill = img.fill)
                        THEN img.fill
                        ELSE "mixed"]

Max(a, b) == IF a >= b THEN a ELSE b

----------------------------------------------------------------------------
(* The history reducer: useReducer((state, action) => ..., {history: [], index: 0}) *)

Actions == {"push", "undo", "redo", "clear"}

\* history.splice(index): keep the first index elements.
splice(h, i) == SubSeq(h, 1, i)

\* case "push"
reducerPushMutKeepRedo(st, cv) ==
    [history |-> Append(st.history, getImageData(cv)),
     index |-> st.index + 1, canvas |-> cv]
reducerPushMutSpliceOne(st, cv) ==
    [history |-> Append(SubSeq(st.history, 1, st.index - 1), getImageData(cv)),
     index |-> st.index + 1, canvas |-> cv]
reducerPush(st, cv) ==
    [history |-> Append(splice(st.history, st.index), getImageData(cv)),
     index |-> st.index + 1, canvas |-> cv]

\* case "undo" (history[index - 2] is the 0-based element, here history[index - 1])
reducerUndoMutNoGuard(st, cv) ==
    [history |-> st.history, index |-> st.index - 1,
     canvas |-> IF st.index > 1
                THEN putImageData(clearCanvas(cv), st.history[st.index - 1])
                ELSE clearCanvas(cv)]
reducerUndoMutOffByOne(st, cv) ==
    IF st.index > 0
    THEN [history |-> st.history, index |-> st.index - 1,
          canvas |-> putImageData(clearCanvas(cv), st.history[st.index])]
    ELSE [history |-> st.history, index |-> st.index, canvas |-> cv]
reducerUndoMutKeepBuffer(st, cv) ==
    IF st.index > 0
    THEN [history |-> st.history, index |-> st.index - 1, canvas |-> cv]
    ELSE [history |-> st.history, index |-> st.index, canvas |-> cv]
reducerUndo(st, cv) ==
    IF st.index > 0
    THEN [history |-> st.history, index |-> st.index - 1,
          canvas |-> IF st.index > 1
                     THEN putImageData(clearCanvas(cv), st.history[st.index - 1])
                     ELSE clearCanvas(cv)]
    ELSE [history |-> st.history, index |-> st.index, canvas |-> cv]

\* case "redo" (history[index] is the 0-based element, here history[index + 1])
reducerRedoMutNoRestore(st, cv) ==
    IF st.index < Len(st.history)
    THEN [history |-> st.history, index |-> st.index + 1, canvas |-> clearCanvas(cv)]
    ELSE [history |-> st.history, index |-> st.index, canvas |-> cv]
reducerRedoMutResnap(st, cv) ==
    IF st.index < Len(st.history)
    THEN [history |-> [st.history EXCEPT ![st.index + 1] = getImageData(cv)],
          index |-> st.index + 1,
          canvas |-> putImageData(clearCanvas(cv), st.history[st.index + 1])]
    ELSE [history |-> st.history, index |-> st.index, canvas |-> cv]
reducerRedoMutFit(st, cv) ==
    IF st.index < Len(st.history)
    THEN [history |-> st.history, index |-> st.index + 1,
          canvas |-> putImageData(
                         clearCanvas(resizeCanvas(cv, st.history[st.index + 1].width,
                                                  st.history[st.index + 1].height)),
                         st.history[st.index + 1])]
    ELSE [history |-> st.history, index |-> st.index, canvas |-> cv]
reducerRedo(st, cv) ==
    IF st.index < Len(st.history)
    THEN [history |-> st.history, index |-> st.index + 1,
          canvas |-> putImageData(clearCanvas(cv), st.history[st.index + 1])]
    ELSE [history |-> st.history, index |-> st.index, canvas |-> cv]

\* case "clear"
reducerClearMutKeepIndex(st, cv) ==
    [history |-> <<>>, index |-> IF st.index > 0 THEN 1 ELSE 0, canvas |-> cv]
reducerClear(st, cv) ==
    [history |-> splice(st.history, 0), index |-> 0, canvas |-> cv]

\* The whole reducer: st is [history, index], cv the canvas it closes over;
\* the result carries the new state and the canvas after its side effects.
reducerMutNoCanvasCheck(st, action, cv) ==
    CASE action = "push" -> reducerPush(st, cv)
      [] action = "undo" -> reducerUndo(st, cv)
      [] action = "redo" -> reducerRedo(st, cv)
      [] action = "clear" -> reducerClear(st, cv)
reducer(st, action, cv) ==
    IF ~cv.mounted
    THEN [history |-> st.history, index |-> st.index, canvas |-> cv]
    ELSE CASE action = "push" -> reducerPush(st, cv)
           [] action = "undo" -> reducerUndo(st, cv)
           [] action = "redo" -> reducerRedo(st, cv)
           [] action = "clear" -> reducerClear(st, cv)

\* The object the reducer was given as state, as it is once the reducer has
\* returned: Object.assign({}, state) copies the two fields, so the history
\* the reducer splices and pushes is the array of that object.
stateAfterCall(st, action, cv) ==
    [history |-> reducer(st, action, cv).history, index |-> st.index]

State == [history |-> history, index |-> index]

NoCall == [action |-> "none", state |-> [history |-> <<>>, index |-> 0],
           canvas |-> NoCanvas, after |-> [history |-> <<>>, index |-> 0]]

\* setHistory(action) with the canvas as cv: the reducer runs on the current
\* state; call records what it was given, and what became of the state object.
Dispatch(action, cv) ==
    LET r == reducer(State, action, cv)
    IN  /\ history' = r.history
        /\ index' = r.index
        /\ canvas' = r.canvas
        /\ call' = [action |-> action, state |-> State, canvas |-> cv,
                    after |-> stateAfterCall(State, action, cv)]


----------------------------------------------------------------------------
(* The HTML form and parseForm *)

\* formData.get(name) === null: no such field, or no radio checked.
Absent == "<absent>"

\* Names of the numeric inputs; the filter fields exist in form-parser.ts only.
NumFieldsOf(r) ==
    IF r = "App"
    THEN {"layers", "alpha", "iterations", "pre-iterations", "base-radius",
          "temperature"}
    ELSE {"layers", "alpha", "iterations", "pre-iterations", "base-radius",
          "temperature", "filter-radius", "filter-weight"}

AllFields == NumFieldsOf("FormParser") \cup {"color"}

\* defaultValue of each FormField (App.tsx 304-339, form-parser.ts 71-143).
DefaultOf(r, name) ==
    CASE name = "layers" -> "128"
      [] name = "alpha" -> "0.008"
      [] name = "iterations" -> IF r = "App" THEN "5" ELSE "4"
      [] name = "pre-iterations" -> "2"
      [] name = "base-radius" -> IF r = "App" THEN "32" ELSE "16"
      [] name = "temperature" -> "0.7"
      [] name = "filter-radius" -> IF r = "App" THEN Absent ELSE "32"
      [] name = "filter-weight" -> IF r = "App" THEN Absent ELSE "0.5"
      [] name = "color" -> Absent

DefaultForm(r) == [name \in AllFields |-> DefaultOf(r, name)]

\* The palette: the first two entries of useState([...]) for colors.
Colors == {"#ff0000", "#ffff00"}

\* What a user may leave in a numeric input.
EditStrings == {"", "abc", "-1", "0", "1", "2", "4294967296"}

\* Values of a parsed numeric field: undefined, NaN or a number, the number
\* held in thousandths (0.008 is 8, 1 is 1000).
Undefined == [k |-> "undefined", v |-> 0]
NaN == [k |-> "NaN", v |-> 0]
Num(n) == [k |-> "number", v |-> n]
\* The number 4294967296 = 2^32.  It is beyond the integers the model holds
\* and is kept as the largest of them, which compares with 0 and 1 as 2^32 does.
TwoTo32 == [k |-> "number", v |-> 2147483647]

\* parseFloat on the strings the model uses.
parseFloat(s) ==
    CASE s = "abc" -> NaN
      [] s = "-1" -> Num(-1000)
      [] s = "0" -> Num(0)
      [] s = "0.008" -> Num(8)
      [] s = "0.5" -> Num(500)
      [] s = "0.7" -> Num(700)
      [] s = "1" -> Num(1000)
      [] s = "2" -> Num(2000)
      [] s = "4" -> Num(4000)
      [] s = "5" -> Num(5000)
      [] s = "16" -> Num(16000)
      [] s = "32" -> Num(32000)
      [] s = "128" -> Num(128000)
      [] s = "4294967296" -> TwoTo32
      [] OTHER -> NaN

\* parseForm(form)[":" + name]: undefined for a missing field and for the
\* empty string, parseFloat(data) otherwise.
parseNumber(f, name) ==
    IF f[name] = Absent THEN Undefined
    ELSE IF f[name] = "" THEN Undefined
    ELSE parseFloat(f[name])

\* parseForm(form)["$" + name]: the string, undefined for a missing field.
parseString(f, name) == f[name]

\* JavaScript comparisons of a parsed value with a number: false on NaN.
Lt(a, n) == a.k = "number" /\ a.v < n
Le(a, n) == a.k = "number" /\ a.v <= n
Gt(a, n) == a.k = "number" /\ a.v > n

\* The constraints the inputs declare, which the browser checks before it
\* fires the submit event.  App.tsx declares none (type="text").  In
\* form-parser.ts every FormField is type="number" and required, with min
\* and, for alpha and temperature, max; the color radios are required.
minOf(name) == IF name = "layers" THEN 1000 ELSE 0
hasMax(name) == name \in {"alpha", "temperature"}
fieldValid(f, name) ==
    /\ f[name] # Absent
    /\ f[name] # ""
    /\ parseFloat(f[name]).k = "number"
    /\ parseFloat(f[name]).v >= minOf(name)
    /\ hasMax(name) => parseFloat(f[name]).v <= 1000
htmlValid(r, f) ==
    r = "FormParser" =>
        /\ \A name \in NumFieldsOf(r) : fieldValid(f, name)
        /\ f["color"] # Absent

----------------------------------------------------------------------------
(* Validation in onSubmit *)

MsgArea == "Please select an area."
MsgColor == "Please select a color."
MsgLayers == "Layers must be a valid positive number."
MsgAlpha == "Layer opacity must be a valid number between 0 and 1."
MsgIterations == "Iterations must be a valid non-negative number."
MsgPreIterations == "Preprocess iterations must be a valid non-negative number."
MsgBaseRadius == "Base radius must be a valid non-negative number."
MsgTemperature == "Temperature must be a valid number between 0 and 1."
MsgFilterRadius == "Filter radius must be a valid non-negative number."
MsgFilterWeight == "Filter weight must be a valid non-negative number."

\* !color
colorFails(f) == parseString(f, "color") = Absent \/ parseString(f, "color") = ""
\* x === undefined || x <= 0
positiveFails(f, name) ==
    parseNumber(f, name) = Undefined \/ Le(parseNumber(f, name), 0)
\* x === undefined || x < 0
nonNegativeFails(f, name) ==
    parseNumber(f, name) = Undefined \/ Lt(parseNumber(f, name), 0)
\* x === undefined || x < 0 || x > 1
unitFails(f, name) ==
    \/ parseNumber(f, name) = Undefined
    \/ Lt(parseNumber(f, name), 0)
    \/ Gt(parseNumber(f, name), 1000)

\* The checks on the parsed fields in source order, each with its message.
fieldChecks(r, f) ==
    << [fails |-> colorFails(f), msg |-> MsgColor],
       [fails |-> positiveFails(f, "layers"), msg |-> MsgLayers],
       [fails |-> unitFails(f, "alpha"), msg |-> MsgAlpha],
       [fails |-> nonNegativeFails(f, "iterations"), msg |-> MsgIterations],
       [fails |-> nonNegativeFails(f, "pre-iterations"), msg |-> MsgPreIterations],
       [fails |-> nonNegativeFails(f, "base-radius"), msg |-> MsgBaseRadius],
       [fails |-> unitFails(f, "temperature"), msg |-> MsgTemperature] >>
    \o (IF r = "App" THEN <<>>
        ELSE << [fails |-> nonNegativeFails(f, "filter-radius"), msg |-> MsgFilterRadius],
                [fails |-> nonNegativeFails(f, "filter-weight"), msg |-> MsgFilterWeight] >>)

Failing(c) == c.fails
MsgsOf(cs) == [i \in 1..Len(cs) |-> cs[i].msg]

\* App.tsx 240-269: every failing check pushes its message; the alert joins them.
errorMessages(p, f) ==
    (IF Len(p) < 2 THEN <<MsgArea>> ELSE <<>>)
    \o MsgsOf(SelectSeq(fieldChecks("App", f), Failing))

\* form-parser.ts 226-266: a short path returns nothing; otherwise the message
\* of the first failing check is returned and the form handler alerts it.
firstMessage(p, f) ==
    IF Len(p) < 2 THEN <<>>
    ELSE LET failed == MsgsOf(SelectSeq(fieldChecks("FormParser", f), Failing))
         IN  IF failed = <<>> THEN <<>> ELSE <<Head(failed)>>

\* The submission is let through to the paint.
accepts(r, cv, p, f) ==
    /\ cv.mounted
    /\ IF r = "App"
       THEN errorMessages(p, f) = <<>>
       ELSE Len(p) >= 2 /\ firstMessage(p, f) = <<>>

\* What the submission shows in its alert (nothing when the canvas is absent).
shown(r, cv, p, f) ==
    IF ~cv.mounted THEN <<>>
    ELSE IF r = "App" THEN errorMessages(p, f) ELSE firstMessage(p, f)

----------------------------------------------------------------------------
(* Outline capture: the pointer handlers of the paint surface *)

\* Pointer positions the model draws from: on one line, minDistance apart,
\* so that the interpolation of closePath stays in the integers.
Positions == {<<k * minDistance, 0>> : k \in 0..MaxPos}

\* distance(a, b) is the square root of this.
distance2(a, b) == (a[1] - b[1]) * (a[1] - b[1]) + (a[2] - b[2]) * (a[2] - b[2])

\* distance(a, b) > d
fartherThan(a, b, d) == distance2(a, b) > d * d

\* Math.floor(distance(a, b) / d)
floorDistanceOver(a, b, d) ==
    CHOOSE n \in 0..distance2(a, b) :
        /\ n * n * d * d <= distance2(a, b)
        /\ distance2(a, b) < (n + 1) * (n + 1) * d * d

\* closePath(path, minDistance): the points i/n of the way from the last
\* point back to the first, i = 1..n-1, appended to the path.
closePathMutToFirst(p, d) ==
    LET p0 == p[1]
        pn == p[Len(p)]
        n == floorDistanceOver(p0, pn, d)
        closingPath == [i \in 1..n |->
                          << pn[1] + ((p0[1] - pn[1]) * i) \div n,
                             pn[2] + ((p0[2] - pn[2]) * i) \div n >>]
    IN  p \o closingPath
closePath(p, d) ==
    LET p0 == p[1]
        pn == p[Len(p)]
        n == floorDistanceOver(p0, pn, d)
        closingPath == [i \in 1..(n - 1) |->
                          << pn[1] + ((p0[1] - pn[1]) * i) \div n,
                             pn[2] + ((p0[2] - pn[2]) * i) \div n >>]
    IN  p \o closingPath

----------------------------------------------------------------------------
(* The paint *)

NoJob == [scheduled |-> FALSE]

\* The layer generator is not being run on its own.
NoGen == [given |-> FALSE]
NoOut == [op |-> "none"]

\* The options object built by onSubmit (the random weights randomizePath
\* adds to the points are drawn when the pass runs).
optionsOf(p, f) ==
    [scheduled |-> TRUE, width |-> width, height |-> height, path |-> p,
     layers |-> parseNumber(f, "layers"),
     alpha |-> parseNumber(f, "alpha"),
     iterations |-> parseNumber(f, "iterations"),
     preIterations |-> parseNumber(f, "pre-iterations"),
     baseRadius |-> parseNumber(f, "base-radius"),
     temperature |-> parseNumber(f, "temperature"),
     filterRadius |-> parseNumber(f, "filter-radius"),
     filterWeight |-> parseNumber(f, "filter-weight"),
     color |-> parseString(f, "color")]

\* Growth of the canvas to the requested size, content kept: getImageData,
\* canvas.width / canvas.height raised, clearCanvas, putImageData.
growCanvasMutExact(cv, w, h) ==
    IF w > cv.width \/ h > cv.height
    THEN putImageData(clearCanvas(resizeCanvas(cv, w, h)), getImageData(cv))
    ELSE cv
growCanvas(cv, w, h) ==
    IF w > cv.width \/ h > cv.height
    THEN putImageData(
             clearCanvas(resizeCanvas(cv, IF w > cv.width THEN w ELSE cv.width,
                                          IF h > cv.height THEN h ELSE cv.height)),
             getImageData(cv))
    ELSE cv

\* The length Array.from gives the layer list: layers truncated to an
\* integer, 0 for a negative number and for NaN.
layerCount(layers) ==
    IF layers.k = "number" /\ layers.v > 0 THEN layers.v \div 1000 ELSE 0

\* The working surface of pass number id after layerList.forEach: ops lists
\* the draws made on it in order, i for the fill of layer i of the list.
fillLayers(options, id) ==
    [id |-> id, ops |-> [i \in 1..layerCount(options.layers) |-> i]]

\* if (x): a number other than 0 and NaN.
truthy(x) == x.k = "number" /\ x.v # 0

\* context.drawImage(filter, 0, 0) with "source-in" on the working surface:
\* draw 0 of ops.
applyMask(surface) == [surface EXCEPT !.ops = Append(@, 0)]

\* generatePaintedCanvas: the layers filled, then the mask when
\* filterRadius && filterWeight.  (drawPainting of App.tsx has no mask and
\* its form no filter fields.)
generatePaintedCanvasMutAlwaysMask(options, id) == applyMask(fillLayers(options, id))
generatePaintedCanvas(options, id) ==
    IF truthy(options.filterRadius) /\ truthy(options.filterWeight)
    THEN applyMask(fillLayers(options, id))
    ELSE fillLayers(options, id)

\* context.drawImage(topCanvas, 0, 0): the working surface is composited on the buffer.
drawImage(cv, top) == [cv EXCEPT !.px = Append(cv.px, top)]

\* Array.from({ length: layers }, ...) in generatePathList: the array is
\* constructed with the length first, and a length of 2^32 or more is a
\* RangeError.
arrayFromThrows(layers) == layers.k = "number" /\ layers.v >= TwoTo32.v

\* The paint raises an exception in the timeout callback.  (The painting
\* module of the App.tsx revision is not in the sources; an array cannot
\* hold 2^32 elements however it is built.)
paintThrows(options) == arrayFromThrows(options.layers)

\* paintToCanvas (painting.ts) / drawPainting (App.tsx): growth, then the
\* layers drawn on a working canvas are merged onto the buffer.
paintToCanvasMutPerLayer(cv, options, id) ==
    LET grown == growCanvas(cv, options.width, options.height)
        top == generatePaintedCanvas(options, id)
    IN  [grown EXCEPT !.px = @ \o [i \in 1..Len(top.ops) |->
                                      [id |-> id, ops |-> <<top.ops[i]>>]]]
paintToCanvas(cv, options, id) ==
    drawImage(growCanvas(cv, options.width, options.height),
              generatePaintedCanvas(options, id))

----------------------------------------------------------------------------
(* The layer generator of painting.ts: uniform, generateLayer,             *)
(* generatePathList.  Numbers are exact rationals [n, d] in lowest terms;  *)
(* a point is <<x, y, weight>>.  Math.random() is a stream of draws in     *)
(* [0, 1): call number i (from 0) returns rand[(i % Len(rand)) + 1].       *)

Abs(a) == IF a < 0 THEN -a ELSE a

RECURSIVE Gcd(_, _)
Gcd(a, b) == IF b = 0 THEN a ELSE Gcd(b, a % b)

\* The rational n / d (d # 0) in lowest terms with a positive denominator.
Q(n, d) ==
    LET g == Gcd(Abs(n), Abs(d))
        sgn == IF d < 0 THEN -1 ELSE 1
    IN  [n |-> sgn * (n \div g), d |-> sgn * (d \div g)]

RAdd(a, b) == Q(a.n * b.d + b.n * a.d, a.d * b.d)
RSub(a, b) == Q(a.n * b.d - b.n * a.d, a.d * b.d)
RMul(a, b) == Q(a.n * b.n, a.d * b.d)
RHalf(a) == Q(a.n, a.d * 2)
RLt(a, b) == a.n * b.d < b.n * a.d
RLe(a, b) == a.n * b.d <= b.n * a.d

\* Math.random(), call number i of the run.
random(rand, i) == rand[(i % Len(rand)) + 1]

\* uniform(centroid, radius) with u the value Math.random() returns:
\* Math.random() * radius * 2 + centroid - radius.
uniformMutNoShift(centroid, radius, u) ==
    RAdd(RMul(RMul(u, radius), Q(2, 1)), centroid)
uniform(centroid, radius, u) ==
    RSub(RAdd(RMul(RMul(u, radius), Q(2, 1)), centroid), radius)

\* The new vertex pm of the pair (p1, p2); its two coordinates take the
\* draws number n and n + 1.
midVertexMutNoHalf(p1, p2, baseRadius, temperature, rand, n) ==
    LET rm == RMul(RAdd(p1[3], p2[3]), temperature)
    IN  << uniform(RHalf(RAdd(p1[1], p2[1])), RMul(baseRadius, rm), random(rand, n)),
           uniform(RHalf(RAdd(p1[2], p2[2])), RMul(baseRadius, rm), random(rand, n + 1)),
           rm >>
midVertex(p1, p2, baseRadius, temperature, rand, n) ==
    LET rm == RHalf(RMul(RAdd(p1[3], p2[3]), temperature))
    IN  << uniform(RHalf(RAdd(p1[1], p2[1])), RMul(baseRadius, rm), random(rand, n)),
           uniform(RHalf(RAdd(p1[2], p2[2])), RMul(baseRadius, rm), random(rand, n + 1)),
           rm >>

\* One pass of the inner loop of generateLayer: for j = 0 .. length - 1,
\* nextPath.push(pm, p2) with p1 = currPath[(j || length) - 1], p2 = currPath[j].
subdivideMutNoCarry(currPath, baseRadius, temperature, rand, n) ==
    [i \in 1..Len(currPath) |->
        midVertex(currPath[IF i = 1 THEN Len(currPath) ELSE i - 1], currPath[i],
                  baseRadius, temperature, rand, n + 2 * (i - 1))]
subdivideMutReweigh(currPath, baseRadius, temperature, rand, n) ==
    [i \in 1..(2 * Len(currPath)) |->
        LET j == (i - 1) \div 2
            pm == midVertex(currPath[IF j = 0 THEN Len(currPath) ELSE j],
                            currPath[j + 1], baseRadius, temperature, rand, n + 2 * j)
        IN  IF i % 2 = 1
            THEN pm
            ELSE <<currPath[j + 1][1], currPath[j + 1][2], pm[3]>>]
subdivideMutCarryFirst(currPath, baseRadius, temperature, rand, n) ==
    [i \in 1..(2 * Len(currPath)) |->
        LET j == (i - 1) \div 2
        IN  IF i % 2 = 0
            THEN midVertex(currPath[IF j = 0 THEN Len(currPath) ELSE j],
                           currPath[j + 1], baseRadius, temperature, rand, n + 2 * j)
            ELSE currPath[j + 1]]
subdivide(currPath, baseRadius, temperature, rand, n) ==
    [i \in 1..(2 * Len(currPath)) |->
        LET j == (i - 1) \div 2
        IN  IF i % 2 = 1
            THEN midVertex(currPath[IF j = 0 THEN Len(currPath) ELSE j],
                           currPath[j + 1], baseRadius, temperature, rand, n + 2 * j)
            ELSE currPath[j + 1]]

\* The outer loop of generateLayer from pass i on; drawn is the number of
\* Math.random() calls made so far.
RECURSIVE generateLayerLoop(_, _, _, _, _, _, _)
generateLayerLoop(currPath, baseRadius, temperature, iterations, rand, n, i) ==
    IF i < iterations
    THEN generateLayerLoop(subdivide(currPath, baseRadius, temperature, rand, n),
                           baseRadius, temperature, iterations, rand,
                           n + 2 * Len(currPath), i + 1)
    ELSE [path |-> currPath, drawn |-> n]

\* generateLayer({ path, baseRadius, temperature, iterations }), run when n
\* draws have been made: the path it returns and the draws made after it.
generateLayerMutOnePassMore(p, baseRadius, temperature, iterations, rand, n) ==
    generateLayerLoop(p, baseRadius, temperature, iterations + 1, rand, n, 0)
generateLayer(p, baseRadius, temperature, iterations, rand, n) ==
    generateLayerLoop(p, baseRadius, temperature, iterations, rand, n, 0)

\* Array.from({ length: layers }, () => generateLayer({ path: basePath, ... })),
\* elements i .. layers.
RECURSIVE layerListFrom(_, _, _, _, _, _, _, _)
layerListFrom(basePath, baseRadius, temperature, iterations, layers, rand, n, i) ==
    IF i > layers
    THEN <<>>
    ELSE LET layer == generateLayer(basePath, baseRadius, temperature, iterations, rand, n)
         IN  <<layer.path>> \o
             layerListFrom(basePath, baseRadius, temperature, iterations, layers,
                           rand, layer.drawn, i + 1)

\* generatePathList(options): the base path, then the layers.
generatePathListMutRebase(options, rand) ==
    [i \in 1..options.layers |->
        generateLayer(options.path, options.baseRadius, options.temperature,
                      options.preIterations + options.iterations, rand, i).path]
generatePathList(options, rand) ==
    LET basePath == generateLayer(options.path, options.baseRadius,
                                  options.temperature, options.preIterations, rand, 0)
    IN  layerListFrom(basePath.path, options.baseRadius, options.temperature,
                      options.iterations, options.layers, rand, basePath.drawn, 1)

----------------------------------------------------------------------------
(* Initial state *)

InitCommon ==
    /\ rev \in Revs
    /\ history = <<>>
    /\ index = 0
    /\ pending = FALSE
    /\ job = NoJob
    /\ alerted = <<>>
    /\ serial = 0
    /\ threw = FALSE
    /\ step = "init"
    /\ call = NoCall
    /\ accepted = 0
    /\ pushes = 0
    /\ width = InitialWidth
    /\ height = InitialHeight

Init ==
    /\ InitCommon
    /\ canvas = NoCanvas
    /\ path = <<>>
    /\ canvasMouseDown = FALSE
    /\ form = DefaultForm(rev)
    /\ gen = NoGen
    /\ out = NoOut

----------------------------------------------------------------------------
(* Actions *)

\* The canvas element is attached and the mount effect clears it to white.
MountedCanvas ==
    clearCanvas([mounted |-> TRUE, width |-> CanvasDefaultWidth,
                 height |-> CanvasDefaultHeight, px |-> Blank,
                 fill |-> "transparent"])

Mount ==
    /\ ~canvas.mounted
    /\ canvas' = MountedCanvas
    /\ threw' = FALSE
    /\ step' = "mount"
    /\ call' = NoCall
    /\ UNCHANGED <<rev, history, index, path, canvasMouseDown, pending, job,
                   form, alerted, serial>>
    /\ UNCHANGED <<accepted, pushes, gen, out>>
    /\ UNCHANGED <<width, height>>

\* A color radio is checked.
SelectColor(c) ==
    /\ form' = [form EXCEPT !["color"] = c]
    /\ threw' = FALSE
    /\ step' = "selectColor"
    /\ call' = NoCall
    /\ UNCHANGED <<rev, canvas, history, index, path, canvasMouseDown, pending,
                   job, alerted, serial>>
    /\ UNCHANGED <<accepted, pushes, gen, out>>
    /\ UNCHANGED <<width, height>>

\* onPointerDown of the paint surface (not hit while pending: pointer-events none).
PointerDown(pt) ==
    /\ ~pending
    /\ canvasMouseDown' = TRUE
    /\ path' = <<pt>>
    /\ threw' = FALSE
    /\ step' = "pointerDown"
    /\ call' = NoCall
    /\ UNCHANGED <<rev, canvas, history, index, pending, job, form, alerted, serial>>
    /\ UNCHANGED <<accepted, pushes, gen, out>>
    /\ UNCHANGED <<width, height>>

\* onPointerMove during a drag; the pointer is captured, so it is delivered
\* whether or not a generation is pending.  Reading the last point of an
\* empty path throws.
PointerMoveWithin(pt, maxLen) ==
    /\ canvasMouseDown
    /\ IF path = <<>>
       THEN /\ threw' = TRUE
            /\ path' = path
       ELSE /\ fartherThan(pt, path[Len(path)], minDistance)
            /\ Len(path) < maxLen
            /\ path' = Append(path, pt)
            /\ threw' = FALSE
    /\ step' = "pointerMove"
    /\ call' = NoCall
    /\ UNCHANGED <<rev, canvas, history, index, canvasMouseDown, pending, job,
                   form, alerted, serial>>
    /\ UNCHANGED <<accepted, pushes, gen, out>>
    /\ UNCHANGED <<width, height>>

PointerMove(pt) == PointerMoveWithin(pt, MaxPath)

\* onPointerUp of the paint surface.
PointerUp ==
    /\ canvasMouseDown \/ ~pending
    /\ canvasMouseDown' = FALSE
    /\ path' = IF Len(path) < 2 THEN <<>> ELSE closePath(path, minDistance)
    /\ threw' = FALSE
    /\ step' = "pointerUp"
    /\ call' = NoCall
    /\ UNCHANGED <<rev, canvas, history, index, pending, job, form, alerted, serial>>
    /\ UNCHANGED <<accepted, pushes, gen, out>>
    /\ UNCHANGED <<width, height>>

\* The Draw button: disabled={pending}.
drawDisabledMutNever == FALSE
drawDisabled == pending

\* setPath([]) of onSubmit once the paint is done.
emptyPathMutKeep == path
emptyPath == <<>>

\* The canvas when onSubmit reaches its await or returns: drawPainting of
\* App.tsx grows the canvas before it schedules the paint, paintToCanvas
\* (form-parser.ts) grows it in the timeout callback; a submission that is
\* not accepted never reaches either.
canvasAfterSubmitMutGrowFirst(r, cv, ok) ==
    IF r = "App" THEN growCanvas(cv, width, height) ELSE cv
canvasAfterSubmit(r, cv, ok) ==
    IF r = "App" /\ ok THEN growCanvas(cv, width, height) ELSE cv

\* The form is submitted (the Draw button is disabled while pending, and
\* the browser holds back a form whose constraints fail): onSubmit up to its
\* await, and the alert of what it reports.
Submit ==
    /\ ~drawDisabled
    /\ htmlValid(rev, form)
    /\ IF accepts(rev, canvas, path, form)
       THEN /\ accepted < MaxPaints
            /\ accepted' = accepted + 1
            /\ pending' = TRUE
            /\ job' = optionsOf(path, form)
            /\ alerted' = <<>>
       ELSE /\ alerted' = shown(rev, canvas, path, form)
            /\ UNCHANGED <<pending, job, accepted>>
    /\ canvas' = canvasAfterSubmit(rev, canvas, accepts(rev, canvas, path, form))
    /\ threw' = FALSE
    /\ step' = "submit"
    /\ call' = NoCall
    /\ UNCHANGED <<rev, history, index, path, canvasMouseDown, form, serial>>
    /\ UNCHANGED <<pushes, gen, out>>
    /\ UNCHANGED <<width, height>>

\* The timeout callback paints and resolves; onSubmit resumes at once:
\* setPending(false), setPath([]), setHistory("push").  When the paint
\* throws (after the growth of the canvas), resolve() is never reached and
\* onSubmit never resumes.
PaintDone ==
    /\ job.scheduled
    /\ IF paintThrows(job)
       THEN /\ canvas' = growCanvas(canvas, job.width, job.height)
            /\ threw' = TRUE
            /\ call' = NoCall
            /\ UNCHANGED <<history, index, serial, pending, path, pushes>>
       ELSE /\ Dispatch("push", paintToCanvas(canvas, job, serial + 1))
            /\ serial' = serial + 1
            /\ pending' = FALSE
            /\ path' = emptyPath
            /\ pushes' = pushes + 1
            /\ threw' = FALSE
    /\ job' = NoJob
    /\ step' = "paintDone"
    /\ UNCHANGED <<rev, canvasMouseDown, form, alerted>>
    /\ UNCHANGED <<accepted, gen, out>>
    /\ UNCHANGED <<width, height>>

\* The Undo and Redo buttons (disabled while pending).
UndoClick ==
    /\ ~pending
    /\ Dispatch("undo", canvas)
    /\ threw' = FALSE
    /\ step' = "undo"
    /\ UNCHANGED <<rev, path, canvasMouseDown, pending, job, form, alerted, serial>>
    /\ UNCHANGED <<accepted, pushes, gen, out>>
    /\ UNCHANGED <<width, height>>

RedoClick ==
    /\ ~pending
    /\ Dispatch("redo", canvas)
    /\ threw' = FALSE
    /\ step' = "redo"
    /\ UNCHANGED <<rev, path, canvasMouseDown, pending, job, form, alerted, serial>>
    /\ UNCHANGED <<accepted, pushes, gen, out>>
    /\ UNCHANGED <<width, height>>

\* The Clear button, confirmed: clearCanvas, then setHistory("clear").
ClearClick ==
    /\ ~pending
    /\ canvas.mounted
    /\ Dispatch("clear", clearCanvas(canvas))
    /\ threw' = FALSE
    /\ step' = "clear"
    /\ UNCHANGED <<rev, path, canvasMouseDown, pending, job, form, alerted, serial>>
    /\ UNCHANGED <<accepted, pushes, gen, out>>
    /\ UNCHANGED <<width, height>>

\* onPointerMove of the resize handle during a resize drag: the frame
\* follows the pointer, never below minWidth x minHeight.
ResizePoints == {<<600, 100>>, <<512, 512>>}

Resize(pt) ==
    /\ width' = Max(pt[1], minWidth)
    /\ height' = Max(pt[2], minHeight)
    /\ threw' = FALSE
    /\ step' = "resize"
    /\ call' = NoCall
    /\ UNCHANGED <<rev, canvas, history, index, path, canvasMouseDown, pending,
                   job, form, alerted, serial, accepted, pushes, gen, out>>

Next ==
    \/ Mount
    \/ \E pt \in ResizePoints : Resize(pt)
    \/ \E c \in Colors : SelectColor(c)
    \/ \E pt \in Positions : PointerDown(pt)
    \/ \E pt \in Positions : PointerMove(pt)
    \/ PointerUp
    \/ Submit
    \/ PaintDone
    \/ UndoClick
    \/ RedoClick
    \/ ClearClick

Spec == Init /\ [][Next]_vars

----------------------------------------------------------------------------
(* The reducer driven directly: any action dispatched at any time, the     *)
(* buffer painted at any time, the canvas absent or mounted.               *)

\* setHistory(a) from any caller.
DispatchAny(a) ==
    /\ a = "push" => index < MaxHist
    /\ Dispatch(a, canvas)
    /\ threw' = FALSE
    /\ step' = "dispatch"
    /\ UNCHANGED <<rev, path, canvasMouseDown, pending, job, form, alerted, serial>>
    /\ UNCHANGED <<accepted, pushes, gen, out>>
    /\ UNCHANGED <<width, height>>

\* The compositor merges one pass onto the buffer.
PaintStroke ==
    /\ canvas.mounted
    /\ serial < MaxPaints
    /\ canvas' = paintToCanvas(canvas, optionsOf(path, form), serial + 1)
    /\ serial' = serial + 1
    /\ threw' = FALSE
    /\ step' = "paintStroke"
    /\ call' = NoCall
    /\ UNCHANGED <<rev, history, index, path, canvasMouseDown, pending, job,
                   form, alerted>>
    /\ UNCHANGED <<accepted, pushes, gen, out>>
    /\ UNCHANGED <<width, height>>

NextReducer ==
    \/ Mount
    \/ PaintStroke
    \/ \E a \in Actions : DispatchAny(a)

SpecReducer == Init /\ [][NextReducer]_vars

----------------------------------------------------------------------------
(* Submissions: every form within MaxEdits edits of the defaults, against  *)
(* an empty, a one-point and a closed outline, canvas absent or mounted.   *)

RECURSIVE FormsWithin(_, _)
FormsWithin(r, k) ==
    IF k = 0
    THEN {[DefaultForm(r) EXCEPT !["color"] = c] : c \in Colors \cup {Absent}}
    ELSE LET prev == FormsWithin(r, k - 1)
         IN  prev \cup {[f EXCEPT ![name] = s] :
                           f \in prev, name \in NumFieldsOf(r), s \in EditStrings}

\* Outlines a submission can meet: none, a drag just begun, a closed one.
SubmitPaths(d) ==
    { <<>>, << <<0, 0>> >>, closePath(<< <<0, 0>>, <<2 * d, 0>> >>, d) }

InitForm ==
    /\ InitCommon
    /\ canvas \in {NoCanvas, MountedCanvas}
    /\ path \in SubmitPaths(minDistance)
    /\ canvasMouseDown = (Len(path) = 1)
    /\ form \in FormsWithin(rev, MaxEdits)
    /\ gen = NoGen
    /\ out = NoOut

NextForm ==
    \/ Submit
    \/ PaintDone

SpecForm == InitForm /\ [][NextForm]_vars

----------------------------------------------------------------------------
(* The mask: the alpha generateFilterCanvas stores for one pixel.  Values    *)
(* are rationals, {k : "nan"} for NaN and {k : "undefined"} for a read of    *)
(* u16array outside its elements.                                            *)

RNaN == [k |-> "nan"]
RNum(q) == [k |-> "num", q |-> q]
U16Undefined == [k |-> "undefined"]
U16(n) == [k |-> "u16", v |-> n]

\* floor of the rational q.
RFloor(q) == IF q.n >= 0 THEN q.n \div q.d ELSE -((-q.n + q.d - 1) \div q.d)

\* Math.pow(r, 1.5) where r is the square of a whole number.
pow15(r) == LET q == CHOOSE q \in 0..r : q * q = r IN q * q * q

\* weight = Math.pow(filterRadius, 1.5) * filterWeight.
maskWeight(filterRadius, filterWeight) == RMul(Q(pow15(filterRadius), 1), filterWeight)

\* padding = filterRadius * 3, blurWidth = width + padding * 2 and
\* blurHeight = height + padding * 2.
maskPadding(filterRadius) == filterRadius * 3
blurWidth(w, filterRadius) == w + maskPadding(filterRadius) * 2
blurHeight(h, filterRadius) == h + maskPadding(filterRadius) * 2

\* The length of u16array.
gridLength(w, h, filterRadius) == blurWidth(w, filterRadius) * blurHeight(h, filterRadius)

\* The index read for the pixel of row i and column j:
\* (i + padding) * blurWidth + j + padding.
cellIndexMutWidthStride(i, j, w, filterRadius) ==
    (i + maskPadding(filterRadius)) * w + j + maskPadding(filterRadius)
cellIndex(i, j, w, filterRadius) ==
    (i + maskPadding(filterRadius)) * blurWidth(w, filterRadius) + j
        + maskPadding(filterRadius)

\* alpha = 255 + Math.min(0, (u16 / 256 - 128) * weight).
maskAlpha(u16, weight) ==
    IF u16.k = "undefined"
    THEN RNaN
    ELSE LET t == RMul(Q(u16.v - 32768, 256), weight)
         IN  RNum(RAdd(Q(255, 1), IF RLt(t, Q(0, 1)) THEN t ELSE Q(0, 1)))

\* A store that wraps modulo 256 as a Uint8Array does.
toUint8ClampMutWrap(x) ==
    IF x.k = "nan" THEN 0 ELSE RFloor(x.q) % 256

\* The store into imageData.data, a Uint8ClampedArray: NaN becomes 0, the
\* value is clamped to 0..255 and rounded to the nearest whole number, a
\* tie to the even one.
toUint8Clamp(x) ==
    IF x.k = "nan" THEN 0
    ELSE IF RLe(x.q, Q(0, 1)) THEN 0
    ELSE IF RLe(Q(255, 1), x.q) THEN 255
    ELSE LET f == RFloor(x.q)
             twice == RSub(RMul(Q(2, 1), x.q), Q(2 * f, 1))
         IN  IF RLt(twice, Q(1, 1)) THEN f
             ELSE IF RLt(Q(1, 1), twice) THEN f + 1
             ELSE IF f % 2 = 0 THEN f ELSE f + 1

----------------------------------------------------------------------------
(* The layer generator run on its own: every input of the sets below, each *)
(* function applied once.                                                  *)

\* Outlines with the weights randomizePath gave them: a two-point and a
\* three-point path.
LayerPaths ==
    { << <<Q(0, 1), Q(0, 1), Q(1, 2)>>, <<Q(8, 1), Q(4, 1), Q(1, 4)>> >>,
      << <<Q(0, 1), Q(0, 1), Q(1, 2)>>, <<Q(8, 1), Q(0, 1), Q(0, 1)>>,
         <<Q(8, 1), Q(8, 1), Q(3, 4)>> >> }

\* Values of Math.random(), and the streams of them.
Draws == {Q(0, 1), Q(3, 4)}
RandStreams == {<<a, b, c>> : a \in Draws, b \in Draws, c \in Draws}

GenInputs ==
    [given : {TRUE},
     path : LayerPaths,
     baseRadius : {Q(0, 1), Q(16, 1)},
     temperature : {Q(0, 1), Q(1, 2), Q(1, 1)},
     iterations : 0..MaxIter,
     preIterations : 0..MaxPre,
     layers : 1..MaxLayers,
     rand : RandStreams]

InitLayer ==
    /\ InitCommon
    /\ rev = "FormParser"
    /\ canvas = NoCanvas
    /\ path = <<>>
    /\ canvasMouseDown = FALSE
    /\ form = DefaultForm(rev)
    /\ gen \in GenInputs
    /\ out = NoOut

\* uniform(centroid, radius) on a coordinate of the first point, with
\* baseRadius as the radius and one draw of the stream.
Uniform(k, i) ==
    /\ gen.given
    /\ out = NoOut
    /\ out' = [op |-> "uniform", centroid |-> gen.path[1][k],
               radius |-> gen.baseRadius, u |-> random(gen.rand, i),
               value |-> uniform(gen.path[1][k], gen.baseRadius, random(gen.rand, i))]
    /\ step' = "uniform"
    /\ UNCHANGED <<rev, canvas, history, index, path, canvasMouseDown, pending,
                   job, form, alerted, serial, threw, call, accepted, pushes, gen>>
    /\ UNCHANGED <<width, height>>

\* generateLayer on the input path.
GenerateLayer ==
    /\ gen.given
    /\ out = NoOut
    /\ out' = [op |-> "generateLayer",
               layer |-> generateLayer(gen.path, gen.baseRadius, gen.temperature,
                                       gen.iterations, gen.rand, 0).path]
    /\ step' = "generateLayer"
    /\ UNCHANGED <<rev, canvas, history, index, path, canvasMouseDown, pending,
                   job, form, alerted, serial, threw, call, accepted, pushes, gen>>
    /\ UNCHANGED <<width, height>>

\* generatePathList on the input.
GeneratePathList ==
    /\ gen.given
    /\ out = NoOut
    /\ out' = [op |-> "generatePathList", list |-> generatePathList(gen, gen.rand)]
    /\ step' = "generatePathList"
    /\ UNCHANGED <<rev, canvas, history, index, path, canvasMouseDown, pending,
                   job, form, alerted, serial, threw, call, accepted, pushes, gen>>
    /\ UNCHANGED <<width, height>>

NextLayer ==
    \/ \E k \in 1..2, i \in 0..2 : Uniform(k, i)
    \/ GenerateLayer
    \/ GeneratePathList

SpecLayer == InitLayer /\ [][NextLayer]_vars

----------------------------------------------------------------------------
(* The mask alpha computed on its own, once for every input below. *)

\* Blurred 16-bit values: the ends of the range, both sides of 32768 and
\* values between, and a read outside the array.
U16Samples ==
    {U16(n) : n \in {0, 1, 255, 256, 16384, 32512, 32640, 32767, 32768, 32769,
                     49152, 65535}} \cup {U16Undefined}

\* Filter radii (squares, so that the power 1.5 is a whole number) and
\* filter weights above 0, as the mask is made only when both are.
MaskRadii == {q * q : q \in 1..MaxRoot}
MaskWeights == {Q(1, 100), Q(1, 2), Q(1, 1), Q(100, 1)}

MaskInputs ==
    [given : {TRUE}, filterRadius : MaskRadii, filterWeight : MaskWeights,
     u16 : U16Samples]

InitMask ==
    /\ InitCommon
    /\ rev = "FormParser"
    /\ canvas = NoCanvas
    /\ path = <<>>
    /\ canvasMouseDown = FALSE
    /\ form = DefaultForm(rev)
    /\ gen \in MaskInputs
    /\ out = NoOut

\* One pass of the inner loop of generateFilterCanvas: the alpha of a pixel
\* and the byte imageData.data then holds.
MaskPixel ==
    /\ gen.given
    /\ out = NoOut
    /\ LET alpha == maskAlpha(gen.u16, maskWeight(gen.filterRadius, gen.filterWeight))
       IN  out' = [op |-> "maskPixel", alpha |-> alpha, stored |-> toUint8Clamp(alpha)]
    /\ step' = "maskPixel"
    /\ UNCHANGED <<rev, canvas, history, index, path, canvasMouseDown, pending,
                   job, form, alerted, serial, threw, call, accepted, pushes, gen>>
    /\ UNCHANGED <<width, height>>

NextMask == MaskPixel

SpecMask == InitMask /\ [][NextMask]_vars

----------------------------------------------------------------------------
(* The cell of the padded grid read for a pixel, computed on its own for   *)
(* every mask size and radius within the bounds.                           *)

GridInputs ==
    [given : {TRUE}, width : 1..MaxGrid, height : 1..MaxGrid,
     filterRadius : 0..MaxRadius]

InitGrid ==
    /\ InitCommon
    /\ rev = "FormParser"
    /\ canvas = NoCanvas
    /\ path = <<>>
    /\ canvasMouseDown = FALSE
    /\ form = DefaultForm(rev)
    /\ gen \in GridInputs
    /\ out = NoOut

\* The read of u16array in the loop body of generateFilterCanvas, for the
\* pixel of row i and column j.
ReadCell(i, j) ==
    /\ gen.given
    /\ out = NoOut
    /\ i < gen.height
    /\ j < gen.width
    /\ out' = [op |-> "readCell", i |-> i, j |-> j,
               length |-> gridLength(gen.width, gen.height, gen.filterRadius),
               index |-> cellIndex(i, j, gen.width, gen.filterRadius)]
    /\ step' = "readCell"
    /\ UNCHANGED <<rev, canvas, history, index, path, canvasMouseDown, pending,
                   job, form, alerted, serial, threw, call, accepted, pushes, gen>>
    /\ UNCHANGED <<width, height>>

NextGrid == \E i \in 0..(MaxGrid - 1), j \in 0..(MaxGrid - 1) : ReadCell(i, j)

SpecGrid == InitGrid /\ [][NextGrid]_vars

----------------------------------------------------------------------------
(* The capture on its own: pointer down, move and up over positions in the *)
(* plane, 1.5 and 3 times minDistance apart, so that the points closePath  *)
(* inserts have whole coordinates.                                         *)

CapturePositions ==
    LET q == minDistance \div 4
    IN  {<<0, 0>>, <<6 * q, 0>>, <<12 * q, 0>>, <<0, 12 * q>>, <<12 * q, 12 * q>>}

NextCapture ==
    \/ \E pt \in CapturePositions : PointerDown(pt)
    \/ \E pt \in CapturePositions : PointerMoveWithin(pt, MaxCapture)
    \/ PointerUp

SpecCapture == Init /\ [][NextCapture]_vars

----------------------------------------------------------------------------
(* Properties *)

\* The reducer leaves history, cursor and canvas as they are.
NoOp(action) ==
    LET r == reducer(State, action, canvas)
    IN  r.history = history /\ r.index = index /\ r.canvas = canvas

\* C1: after any sequence of push, undo, redo and clear dispatched from the
\* initial state, 0 <= cursor <= number of snapshots.
C1_CursorInRange == index >= 0 /\ index <= Len(history)

C1_Witness ==
    /\ step = "dispatch"
    /\ call.action = "undo"
    /\ index >= 1
    /\ index < Len(history)

\* C2: push on a mounted canvas yields the first cursor old snapshots
\* followed by one snapshot of the buffer, cursor + 1, and the same buffer.
C2_PushAppendsSnapshot ==
    (call.action = "push" /\ call.canvas.mounted) =>
        /\ Len(history) = call.state.index + 1
        /\ \A i \in 1..call.state.index : history[i] = call.state.history[i]
        /\ history[Len(history)] =
               [width |-> call.canvas.width, height |-> call.canvas.height,
                px |-> call.canvas.px, fill |-> call.canvas.fill]
        /\ index = call.state.index + 1
        /\ canvas = call.canvas

C2_Witness ==
    /\ call.action = "push"
    /\ call.canvas.mounted
    /\ call.state.index >= 1
    /\ call.state.index < Len(call.state.history)
    /\ call.canvas.px # Blank

\* C3: undo on a mounted canvas is a no-op at cursor 0; at cursor 1 it
\* leaves the buffer blank, above 1 it leaves the content of the snapshot
\* at (0-based) cursor - 2; in both cases cursor - 1 and the same snapshots.
C3_Undo ==
    (call.action = "undo" /\ call.canvas.mounted) =>
        IF call.state.index = 0
        THEN State = call.state /\ canvas = call.canvas
        ELSE /\ index = call.state.index - 1
             /\ history = call.state.history
             /\ canvas.width = call.canvas.width
             /\ canvas.height = call.canvas.height
             /\ canvas.px = IF call.state.index = 1 THEN Blank
                            ELSE call.state.history[call.state.index - 1].px

C3_Witness ==
    /\ call.action = "undo"
    /\ call.state.index > 1
    /\ canvas.px # Blank
    /\ canvas.px # call.canvas.px

\* C4: redo on a mounted canvas is a no-op at cursor = number of snapshots;
\* otherwise it leaves the content of the snapshot at (0-based) cursor,
\* cursor + 1 and the same snapshots.
C4_Redo ==
    (call.action = "redo" /\ call.canvas.mounted) =>
        IF call.state.index = Len(call.state.history)
        THEN State = call.state /\ canvas = call.canvas
        ELSE /\ index = call.state.index + 1
             /\ history = call.state.history
             /\ canvas.width = call.canvas.width
             /\ canvas.height = call.canvas.height
             /\ canvas.px = call.state.history[call.state.index + 1].px

C4_Witness ==
    /\ call.action = "redo"
    /\ call.state.index < Len(call.state.history)
    /\ canvas.px # Blank
    /\ canvas.px # call.canvas.px

\* C5: right after any push the cursor is the number of snapshots and a
\* redo is a no-op; a push at cursor 1 of 2 snapshots (push, push, undo,
\* push) leaves exactly 2 snapshots and cursor 2.
C5_PushTruncatesRedo ==
    (call.action = "push" /\ call.canvas.mounted) =>
        /\ index = Len(history)
        /\ NoOp("redo")
        /\ (call.state.index = 1 /\ Len(call.state.history) = 2) =>
               (Len(history) = 2 /\ index = 2)

C5_Witness ==
    /\ call.action = "push"
    /\ call.canvas.mounted
    /\ call.state.index = 1
    /\ Len(call.state.history) = 2
    /\ history[2] # call.state.history[2]

\* C6: in every reachable state with cursor >= 1, undo followed by redo
\* gives back the same snapshots, cursor and buffer; after an undo to
\* cursor >= 1, after a redo and after a push the buffer holds the content
\* of the snapshot below the cursor (the buffer as it was right after the
\* push that took it).
C6_UndoRedoRoundTrip ==
    (canvas.mounted /\ index >= 1) =>
        /\ LET u == reducer(State, "undo", canvas)
               r == reducer([history |-> u.history, index |-> u.index], "redo",
                            u.canvas)
           IN  r.history = history /\ r.index = index /\ r.canvas = canvas
        /\ call.action \in {"undo", "redo", "push"} =>
               canvas.px = history[index].px

C6_Witness ==
    /\ step = "redo"
    /\ call.state.index >= 1
    /\ call.state.index < Len(call.state.history)
    /\ canvas.px = history[index].px
    /\ canvas.px # call.canvas.px

\* C7: the Clear button blanks the buffer and then clear empties the
\* snapshots and sets the cursor to 0; with no snapshots and cursor 0 both
\* undo and redo are no-ops, so no sequence of them brings the painting back.
C7_Clear ==
    /\ step = "clear" =>
           /\ call.canvas.px = Blank
           /\ history = <<>>
           /\ index = 0
           /\ canvas.px = Blank
    /\ (canvas.mounted /\ history = <<>> /\ index = 0) =>
           (NoOp("undo") /\ NoOp("redo"))

C7_Witness ==
    /\ step = "clear"
    /\ call.state.index >= 1
    /\ call.state.index < Len(call.state.history)
    /\ history = <<>>

\* C8: with the canvas absent every action returns the state unchanged and
\* raises no error.
C8_AbsentCanvasNoOp ==
    (call.action # "none" /\ ~call.canvas.mounted) =>
        /\ State = call.state
        /\ canvas = call.canvas
        /\ ~threw

C8_Witness ==
    /\ step = "dispatch"
    /\ call.action = "push"
    /\ ~call.canvas.mounted

\* The ranges of section 6 of the specification, on a parsed value: a
\* number, and layers > 0, alpha and temperature in [0, 1], the others >= 0.
InRange(name, x) ==
    /\ x.k = "number"
    /\ IF name = "layers" THEN x.v > 0
       ELSE IF name \in {"alpha", "temperature"} THEN x.v >= 0 /\ x.v <= 1000
       ELSE x.v >= 0

\* C9: a submission with fewer than 2 points, an empty color, or a numeric
\* field that is missing, not a number or out of range never sets pending
\* and schedules no paint.
C9_NoPaintOnInvalid ==
    ( /\ step = "submit"
      /\ \/ Len(path) < 2
         \/ parseString(form, "color") \in {Absent, ""}
         \/ \E name \in NumFieldsOf(rev) : ~InRange(name, parseNumber(form, name)) )
    => (~pending /\ ~job.scheduled)

\* The message of the rule on a numeric field.
MsgOf(name) ==
    CASE name = "layers" -> MsgLayers
      [] name = "alpha" -> MsgAlpha
      [] name = "iterations" -> MsgIterations
      [] name = "pre-iterations" -> MsgPreIterations
      [] name = "base-radius" -> MsgBaseRadius
      [] name = "temperature" -> MsgTemperature
      [] name = "filter-radius" -> MsgFilterRadius
      [] name = "filter-weight" -> MsgFilterWeight

Shown(msg) == \E i \in 1..Len(alerted) : alerted[i] = msg

\* C10: after a submission every violated rule (fewer than 2 points, no
\* color, a numeric field missing or a number out of its range) has its
\* message in what the alert shows.
C10_EveryViolationReported ==
    (step = "submit" /\ canvas.mounted) =>
        /\ Len(path) < 2 => Shown(MsgArea)
        /\ parseString(form, "color") \in {Absent, ""} => Shown(MsgColor)
        /\ \A name \in NumFieldsOf(rev) :
               ( /\ parseNumber(form, name) # NaN
                 /\ ~InRange(name, parseNumber(form, name)) )
               => Shown(MsgOf(name))

----------------------------------------------------------------------------
(* Properties of the deferred paint *)

\* C11: at most one generation pass is in flight at any time: a submission
\* is accepted only when every pass accepted before it has finished, and
\* pending is set exactly while one pass is in flight.
C11_OnePassAtATime ==
    /\ accepted - serial \in {0, 1}
    /\ pending <=> (accepted - serial = 1)
    /\ pending <=> job.scheduled

\* A second pass is in flight, and a pointer event of a drag that was under
\* way at its submission has been handled in the meantime.
C11_Witness ==
    /\ pending
    /\ accepted = 2
    /\ serial = 1
    /\ step = "pointerUp"

\* C12: once no paint is outstanding every accepted submission has had
\* exactly one push; the push of a submission is run on the buffer the
\* finished paint left, and the snapshot under the cursor holds that content.
C12_PushAfterPaint ==
    /\ pushes <= accepted
    /\ pushes = serial
    /\ ~job.scheduled => pushes = accepted
    /\ (step = "paintDone" /\ call.action = "push") =>
           /\ call.canvas.px # Blank
           /\ call.canvas.px[Len(call.canvas.px)].id = serial
           /\ index >= 1
           /\ history[index].px = call.canvas.px

\* C13: the paint of an accepted submission does not throw, so pending is
\* set only while the paint that will reset it is still scheduled, and is
\* reset when that paint has run.
C13_PaintCompletes ==
    /\ pending => job.scheduled
    /\ step = "paintDone" => (~threw /\ ~pending)

\* C14: while a generation is pending the latest handler is no history
\* transition, and the captured path is still the one the pass was given.
C14_PendingIsolated ==
    (pending /\ job.scheduled) =>
        /\ step \notin {"undo", "redo", "clear"}
        /\ path = job.path

\* C15: when the paint of an accepted submission is done the path is empty,
\* and a submission that finds the path empty is rejected.
C15_PathConsumed ==
    /\ (step = "paintDone" /\ ~threw) =>
           (path = <<>> /\ ~accepts(rev, canvas, path, form))
    /\ (step = "submit" /\ path = <<>>) => (~pending /\ ~job.scheduled)

\* A submission made after a finished pass, with no new capture, was rejected.
C15_Witness ==
    /\ step = "submit"
    /\ path = <<>>
    /\ serial >= 1
    /\ history # <<>>
    /\ ~colorFails(form)
    /\ ~pending

----------------------------------------------------------------------------
(* Properties of the layer generator *)

RECURSIVE Pow2(_)
Pow2(k) == IF k = 0 THEN 1 ELSE 2 * Pow2(k - 1)

\* The input path after k passes of generateLayer.
layerAfter(k) ==
    generateLayer(gen.path, gen.baseRadius, gen.temperature, k, gen.rand, 0).path

\* v is in [c - r, c + r), or is c when r = 0.
InJitterRange(v, c, r) ==
    IF r.n = 0
    THEN v = c
    ELSE RLe(RSub(c, r), v) /\ RLt(v, RAdd(c, r))

\* C16: generateLayer returns a path of length L * 2^iterations, each pass
\* doubling the length, and with iterations = 0 the input path itself.
C16_LayerLength ==
    out.op = "generateLayer" =>
        /\ Len(out.layer) = Len(gen.path) * Pow2(gen.iterations)
        /\ \A k \in 1..gen.iterations :
               Len(layerAfter(k)) = 2 * Len(layerAfter(k - 1))
        /\ gen.iterations = 0 => out.layer = gen.path

C16_Witness ==
    /\ out.op = "generateLayer"
    /\ gen.iterations = 2
    /\ Len(gen.path) = 3
    /\ Len(out.layer) = 12

\* C17: in every pass from p to q, q[2j+1] (counted from 0) is p[j] as it
\* was, and q[2j] is the new vertex of the pair (p[j-1], p[j]), the last
\* point preceding the first: its weight is (w(p[j-1]) + w(p[j])) *
\* temperature / 2, and it is the midpoint of the pair when the jitter
\* radius is 0.
C17_SubdivisionPass ==
    out.op = "generateLayer" =>
        \A k \in 1..gen.iterations :
            LET p == layerAfter(k - 1)
                q == layerAfter(k)
            IN  \A j \in 0..(Len(p) - 1) :
                    LET p1 == p[IF j = 0 THEN Len(p) ELSE j]
                        p2 == p[j + 1]
                        rm == RHalf(RMul(RAdd(p1[3], p2[3]), gen.temperature))
                    IN  /\ q[2 * j + 2] = p2
                        /\ q[2 * j + 1][3] = rm
                        /\ RMul(gen.baseRadius, rm).n = 0 =>
                               /\ q[2 * j + 1][1] = RHalf(RAdd(p1[1], p2[1]))
                               /\ q[2 * j + 1][2] = RHalf(RAdd(p1[2], p2[2]))

C17_Witness ==
    /\ out.op = "generateLayer"
    /\ gen.iterations = 2
    /\ Len(gen.path) = 3
    /\ gen.temperature = Q(1, 2)
    /\ out.layer[1][3] = Q(17, 64)
    /\ out.layer[4] = gen.path[1]

C19_PathList ==
    out.op = "generatePathList" =>
        LET basePath == layerAfter(gen.preIterations)
        IN  /\ Len(out.list) = gen.layers
            /\ Len(basePath) = Len(gen.path) * Pow2(gen.preIterations)
            /\ \A i \in 1..Len(out.list) :
                   /\ Len(out.list[i]) =
                          Len(gen.path) * Pow2(gen.preIterations + gen.iterations)
                   /\ \A m \in 1..Len(basePath) :
                          out.list[i][m * Pow2(gen.iterations)] = basePath[m]

C19_Witness ==
    /\ out.op = "generatePathList"
    /\ gen.layers = 2
    /\ gen.preIterations = 1
    /\ gen.iterations = 1
    /\ Len(out.list[2]) = 4 * Len(gen.path)
    /\ out.list[1] # out.list[2]

\* C20: with iterations = 0, preIterations = 0 and layers = 1 the path list
\* is the input path alone, whatever baseRadius, temperature and the draws.
C20_IdentityLayer ==
    ( /\ out.op = "generatePathList"
      /\ gen.iterations = 0
      /\ gen.preIterations = 0
      /\ gen.layers = 1 )
    => out.list = <<gen.path>>

C20_Witness ==
    /\ out.op = "generatePathList"
    /\ gen.iterations = 0
    /\ gen.preIterations = 0
    /\ gen.layers = 1
    /\ gen.baseRadius = Q(16, 1)
    /\ gen.temperature = Q(1, 1)
    /\ gen.rand = <<Q(3, 4), Q(3, 4), Q(3, 4)>>
    /\ out.list[1] = gen.path

\* C29: with k = iterations, point j of the base path (counted from 0) is
\* point 2^k * (j + 1) - 1 of every layer, coordinates and weight as they
\* were, and so is every point of the input path at the distance
\* 2^(preIterations + k); two layers hold the same point wherever the base
\* path gave it.
C29_SharedBasePath ==
    out.op = "generatePathList" =>
        LET k == gen.iterations
            basePath == layerAfter(gen.preIterations)
        IN  \A a \in 1..Len(out.list) :
                /\ \A j \in 0..(Len(basePath) - 1) :
                       LET v == out.list[a][(Pow2(k) * (j + 1) - 1) + 1]
                       IN  /\ v[1] = basePath[j + 1][1]
                           /\ v[2] = basePath[j + 1][2]
                           /\ v[3] = basePath[j + 1][3]
                           /\ \A b \in 1..Len(out.list) :
                                  out.list[b][(Pow2(k) * (j + 1) - 1) + 1] = v
                /\ \A j \in 0..(Len(gen.path) - 1) :
                       out.list[a][Pow2(gen.preIterations + k) * (j + 1)] = gen.path[j + 1]

C29_Witness ==
    /\ out.op = "generatePathList"
    /\ gen.layers = 2
    /\ gen.preIterations = 1
    /\ gen.iterations = 1
    /\ Len(gen.path) = 2
    /\ gen.baseRadius = Q(16, 1)
    /\ gen.temperature = Q(1, 1)
    /\ out.list[1][1] # out.list[2][1]
    /\ out.list[1][2] = out.list[2][2]
    /\ out.list[1][2] # gen.path[1]
    /\ out.list[1][4] = gen.path[1]

\* a is within r of c: c - r <= a <= c + r.
Within(a, c, r) == RLe(RSub(c, r), a) /\ RLe(a, RAdd(c, r))

\* C30: with the input weights and the temperature in [0, 1], after every
\* number of passes every weight is in [0, 1] and is at most the largest
\* input weight, and each coordinate of a new vertex is within
\* baseRadius * temperature of the midpoint of its pair.
C30_WeightsBounded ==
    ( /\ out.op = "generateLayer"
      /\ \A i \in 1..Len(gen.path) :
             RLe(Q(0, 1), gen.path[i][3]) /\ RLe(gen.path[i][3], Q(1, 1))
      /\ RLe(Q(0, 1), gen.temperature) /\ RLe(gen.temperature, Q(1, 1)) )
    =>
        \A k \in 0..gen.iterations :
            LET q == layerAfter(k)
            IN  /\ \A i \in 1..Len(q) :
                       /\ RLe(Q(0, 1), q[i][3])
                       /\ RLe(q[i][3], Q(1, 1))
                       /\ \E u \in 1..Len(gen.path) : RLe(q[i][3], gen.path[u][3])
                /\ k >= 1 =>
                       LET p == layerAfter(k - 1)
                       IN  \A j \in 0..(Len(p) - 1) :
                               LET p1 == p[IF j = 0 THEN Len(p) ELSE j]
                                   p2 == p[j + 1]
                                   r == RMul(gen.baseRadius, gen.temperature)
                               IN  /\ Within(q[2 * j + 1][1], RHalf(RAdd(p1[1], p2[1])), r)
                                   /\ Within(q[2 * j + 1][2], RHalf(RAdd(p1[2], p2[2])), r)

\* Two passes at temperature 1 on the three-point path: a new vertex
\* between the weights 3/4 and 1/2 has weight 5/8 and lies off the midpoint
\* (4, 4) of its pair.
C30_Witness ==
    /\ out.op = "generateLayer"
    /\ gen.iterations = 2
    /\ Len(gen.path) = 3
    /\ gen.temperature = Q(1, 1)
    /\ gen.baseRadius = Q(16, 1)
    /\ layerAfter(1)[1][3] = Q(5, 8)
    /\ layerAfter(1)[1][1] # Q(4, 1)
    /\ Len(out.layer) = 12

----------------------------------------------------------------------------
(* Properties of the paint, the buffer and the snapshots *)

\* The working surface the latest paint merged onto the buffer.
topSurface == canvas.px[Len(canvas.px)]

\* x is the number 0.
isZero(x) == x.k = "number" /\ x.v = 0

\* x is a number above 0.
isPositive(x) == x.k = "number" /\ x.v > 0

\* C21: when filterRadius or filterWeight is 0 the surface a paint merges
\* is the one the pipeline without the mask step makes (the layers filled,
\* nothing more); when both are above 0 it is that surface with the mask
\* drawn on it.
C21_MaskSkipped ==
    (step = "paintDone" /\ call.action = "push") =>
        LET fr == parseNumber(form, "filter-radius")
            fw == parseNumber(form, "filter-weight")
            unmasked == fillLayers(optionsOf(path, form), serial)
        IN  /\ (isZero(fr) \/ isZero(fw)) => topSurface = unmasked
            /\ (isPositive(fr) /\ isPositive(fw)) => topSurface = applyMask(unmasked)

C21_Witness ==
    /\ step = "paintDone"
    /\ call.action = "push"
    /\ form["filter-radius"] = "0"
    /\ form["filter-weight"] = "0.5"
    /\ topSurface.ops = <<1, 2>>

C24_SingleMerge ==
    (step = "paintDone" /\ call.action = "push") =>
        LET n == layerCount(parseNumber(form, "layers"))
        IN  /\ canvas.px # Blank
            /\ topSurface.id = serial
            /\ Len(topSurface.ops) \in {n, n + 1}
            /\ \A i \in 1..n : topSurface.ops[i] = i
            /\ Len(topSurface.ops) = n + 1 => topSurface.ops[n + 1] = 0
            /\ SubSeq(canvas.px, 1, Len(canvas.px) - 1) =
                   IF call.state.index = 0 THEN Blank
                   ELSE call.state.history[call.state.index].px

C24_Witness ==
    /\ step = "paintDone"
    /\ call.action = "push"
    /\ canvas.px = << [id |-> 1, ops |-> <<1, 2, 0>>] >>

\* C25: the reducer leaves the state object it was given as it was.
C25_ReducerPure ==
    call.action # "none" => call.after = call.state

\* C26: a snapshot that is still in the sequence after a step is what it
\* was before the step, unless a push replaced it (positions above the old
\* cursor); the sequence shrinks only by push and clear.
C26_SnapshotImmutable ==
    [][ /\ \A i \in 1..Len(history) :
               i <= Len(history') =>
                   \/ history'[i] = history[i]
                   \/ (call'.action = "push" /\ i > index)
        /\ Len(history') < Len(history) => call'.action \in {"push", "clear"} ]_vars

\* After a second paint on a grown buffer the first snapshot is still the
\* smaller image it was.
C26_Witness ==
    /\ step = "paintDone"
    /\ index = 2
    /\ Len(history) = 2
    /\ history[1].width < history[2].width
    /\ Len(history[1].px) = 1

\* C27: with no generation pending, a mounted buffer holds the content of
\* the snapshot under the cursor, or is blank at cursor 0, white wherever no
\* pass is composited, and is at least as large as that snapshot.
C27_BufferIsSnapshot ==
    (canvas.mounted /\ ~pending /\ ~job.scheduled) =>
        /\ canvas.fill = "white"
        /\ IF index = 0
           THEN canvas.px = Blank
           ELSE /\ canvas.px = history[index].px
                /\ history[index].fill = "white"
                /\ history[index].width <= canvas.width
                /\ history[index].height <= canvas.height

C27_Witness ==
    /\ step = "undo"
    /\ index = 1
    /\ Len(history) = 2
    /\ canvas.width > history[1].width
    /\ canvas.px = history[1].px

\* C28: a submission that is not accepted leaves buffer, snapshots, cursor,
\* path and pending as they were.
C28_RejectedChangesNothing ==
    [][ (step' = "submit" /\ accepted' = accepted) =>
            /\ canvas' = canvas
            /\ history' = history
            /\ index' = index
            /\ path' = path
            /\ pending' = pending ]_vars

C28_Witness ==
    /\ step = "submit"
    /\ accepted = 0
    /\ canvas.mounted
    /\ rev = "App"
    /\ Len(alerted) = 2

\* C22: the byte stored as the alpha of a mask pixel is in 0..255; it is
\* 255 wherever the blurred value is 32768 or more; it is 0 wherever the
\* computed alpha is 0 or less, however far below; between, it is the
\* computed alpha rounded to a nearest whole number.
C22_AlphaClamped ==
    out.op = "maskPixel" =>
        /\ out.stored \in 0..255
        /\ (gen.u16.k = "u16" /\ gen.u16.v >= 32768) => out.stored = 255
        /\ (out.alpha.k = "num" /\ RLe(out.alpha.q, Q(0, 1))) => out.stored = 0
        /\ (out.alpha.k = "num" /\ RLe(Q(0, 1), out.alpha.q)) =>
               /\ RLe(RSub(Q(2 * out.stored, 1), RMul(Q(2, 1), out.alpha.q)), Q(1, 1))
               /\ RLe(RSub(RMul(Q(2, 1), out.alpha.q), Q(2 * out.stored, 1)), Q(1, 1))

\* Radius 4 and weight 100 give weight 800 and, at a blurred value of 0, an
\* alpha of 255 - 102400, stored as 0.
C22_Witness ==
    /\ out.op = "maskPixel"
    /\ gen.filterRadius = 4
    /\ gen.filterWeight = Q(100, 1)
    /\ gen.u16 = U16(0)
    /\ out.alpha = RNum(Q(-102145, 1))
    /\ out.stored = 0

----------------------------------------------------------------------------
(* Properties of the buffer size, the capture and the mask grid *)

\* C31: no step makes the buffer narrower or lower, and after every step
\* each snapshot is at most as wide and as high as the buffer, so a
\* snapshot put back at (0, 0) lies inside it.
C31_BufferNeverShrinks ==
    [][ /\ canvas'.width >= canvas.width
        /\ canvas'.height >= canvas.height
        /\ \A i \in 1..Len(history') :
               /\ history'[i].width <= canvas'.width
               /\ history'[i].height <= canvas'.height ]_vars

\* Both snapshots undone on a buffer that grew between the two paints.
C31_Witness ==
    /\ step = "undo"
    /\ index = 0
    /\ Len(history) = 2
    /\ history[1].width = 512
    /\ history[2].width = 600
    /\ canvas.width = 600
    /\ canvas.px = Blank

\* C32: while a drag is active the captured path is not empty, and no run
\* of the pointer-move handler fails on reading the last point.
C32_DragPathNonEmpty ==
    /\ canvasMouseDown => path # <<>>
    /\ step = "pointerMove" => ~threw

\* C33: on release a capture of fewer than 2 points becomes the empty
\* path; otherwise the path keeps its points and gains max(0, n - 1) more,
\* n = floor(d / minDistance) with d the distance from the last point to
\* the first, point i of them lying i / n of the way from the last point to
\* the first; and a path that is not being dragged is empty or has 2 points
\* or more.
C33_ClosedOnRelease ==
    [][ /\ step' = "pointerUp" =>
               IF Len(path) < 2
               THEN path' = <<>>
               ELSE LET p0 == path[1]
                        pn == path[Len(path)]
                        n == CHOOSE k \in 0..distance2(p0, pn) :
                                 /\ k * k * minDistance * minDistance <= distance2(p0, pn)
                                 /\ distance2(p0, pn) <
                                        (k + 1) * (k + 1) * minDistance * minDistance
                        c == IF n - 1 > 0 THEN n - 1 ELSE 0
                    IN  /\ Len(path') = Len(path) + c
                        /\ SubSeq(path', 1, Len(path)) = path
                        /\ \A i \in 1..c :
                               /\ n * (path'[Len(path) + i][1] - pn[1]) = i * (p0[1] - pn[1])
                               /\ n * (path'[Len(path) + i][2] - pn[2]) = i * (p0[2] - pn[2])
        /\ ~canvasMouseDown' => (path' = <<>> \/ Len(path') >= 2) ]_vars

\* A drag from (0, 0) to (48, 48) released: the distance is 67.9, n = 4 and
\* three points are inserted on the way back.
C33_Witness ==
    /\ rev = "App"
    /\ step = "pointerUp"
    /\ ~canvasMouseDown
    /\ path = << <<0, 0>>, <<48, 48>>, <<36, 36>>, <<24, 24>>, <<12, 12>> >>

\* C34: for a mask of whole width and height above 0 and a whole filter
\* radius r of 0 or more, the grid has (width + 6r) * (height + 6r) cells,
\* and the index read for the pixel (i, j) is inside the grid and is that
\* of row i + 3r, column j + 3r of it.
C34_CellInsideGrid ==
    out.op = "readCell" =>
        LET r == gen.filterRadius
            columns == gen.width + 6 * r
            rows == gen.height + 6 * r
        IN  /\ out.length = columns * rows
            /\ out.index >= 0
            /\ out.index < out.length
            /\ out.index \div columns = out.i + 3 * r
            /\ out.index % columns = out.j + 3 * r
            /\ out.i + 3 * r < rows
            /\ out.j + 3 * r < columns

\* A 2 x 3 mask with radius 1: the grid is 8 x 9 and the pixel (2, 1) reads
\* cell 5 * 8 + 4.
C34_Witness ==
    /\ out.op = "readCell"
    /\ gen.width = 2
    /\ gen.height = 3
    /\ gen.filterRadius = 1
    /\ out.i = 2
    /\ out.j = 1
    /\ out.length = 72
    /\ out.index = 44

=============================================================================
